---- MODULE Spec2Model ----
(***************************************************************************)
(* Pit-stop strategy calculator of pitline-corner-backend                  *)
(* (app/services/strategy/pit_stop/calculator.py) with the two repository  *)
(* queries it awaits (app/repositories/f1.py).                             *)
(*                                                                         *)
(* Python floats are modelled as exact rationals <<numerator, denominator>>*)
(* with a positive denominator, kept in lowest terms.  The decimal         *)
(* literals 0.15 and 0.025 are the rationals 3/20 and 1/40.                *)
(***************************************************************************)
EXTENDS Integers, Sequences, FiniteSets, TLC

\* One request to GET /simulations/pit-stop: the stored rows of the requested
\* race and driver, the handler's position and locals, and the HTTP response.
VARIABLES lap_table, pit_table, pc, req, driver_laps, pit_queried, result, error,
          response

calcVars == <<lap_table, pit_table, pc, req, driver_laps, pit_queried, result, error,
              response>>

\* Invocations of calculate_alternative_strategy running as tasks of one event
\* loop on the singleton calculator: the stored rows per driver, each task's
\* position, the arguments it was called with, its frame of locals, its outcome.
VARIABLES lap_store, pit_store, task_pc, task_args, frames, task_result

taskVars == <<lap_store, pit_store, task_pc, task_args, frames, task_result>>

\* POST /auth/register: the users table and, per request, the handler's
\* position, the request body and the HTTP response.
VARIABLES users, reg_pc, reg_in, reg_response

authVars == <<users, reg_pc, reg_in, reg_response>>

\* FastF1Service.import_race: the committed races and lap rows, the number of
\* calls made, and the running call's position, arguments, loaded session,
\* race id and return value, the tables as they were when it was called, and
\* the response of POST /import/race/{season}/{round} that made the call.
VARIABLES races, lap_rows, imp_count, imp_pc, imp_args, imp_session, imp_race,
          imp_result, imp_before, imp_response

importVars == <<races, lap_rows, imp_count, imp_pc, imp_args, imp_session, imp_race,
                imp_result, imp_before, imp_response>>

vars == <<calcVars, taskVars, authVars, importVars>>

\* The parts of the state a request to the pit-stop endpoint does not touch.
otherThanCalc == <<taskVars, authVars, importVars>>
otherThanTasks == <<calcVars, authVars, importVars>>
otherThanAuth == <<calcVars, taskVars, importVars>>
otherThanImport == <<calcVars, taskVars, authVars>>

\* The other parts of the system at rest.
TasksIdle ==
    /\ lap_store = <<>>
    /\ pit_store = <<>>
    /\ task_pc = <<>>
    /\ task_args = <<>>
    /\ frames = <<>>
    /\ task_result = <<>>

ImportIdle ==
    /\ races = {}
    /\ lap_rows = {}
    /\ imp_count = 0
    /\ imp_pc = "idle"
    /\ imp_args = <<>>
    /\ imp_session = <<>>
    /\ imp_race = <<>>
    /\ imp_result = <<>>
    /\ imp_before = <<>>
    /\ imp_response = <<>>

AuthIdle ==
    /\ users = {}
    /\ reg_pc = <<>>
    /\ reg_in = <<>>
    /\ reg_response = <<>>

CalcIdle ==
    /\ lap_table = {}
    /\ pit_table = {}
    /\ pc = "idle"
    /\ req = <<>>
    /\ driver_laps = <<>>
    /\ pit_queried = FALSE
    /\ result = <<>>
    /\ error = <<>>
    /\ response = <<>>

(***************************************************************************)
(* Bounds of the model.                                                    *)
(***************************************************************************)
MaxLaps == 2

\* Lap numbers a driver may have rows for (lap 3 is never recorded, so the
\* recorded laps need not be contiguous), and the stop laps a caller may ask for.
LapNumbers == {1, 2, 4}
Positions == {1, 2, 20}
LapTimes == {0, 90, 120}
Compounds == {"SOFT", "HARD"}
PitStopTables == {{}, {[lap |-> 2]}, {[lap |-> 3], [lap |-> 1]}}
StopLaps == 0..5
RaceIds == {1}
DriverIds == {1}

(***************************************************************************)
(* Rational arithmetic standing for float arithmetic.                      *)
(***************************************************************************)
Abs(n) == IF n < 0 THEN -n ELSE n

RECURSIVE Gcd(_, _)
Gcd(a, b) == IF b = 0 THEN a ELSE Gcd(b, a % b)

Norm(n, d) ==
    LET g == Gcd(Abs(n), Abs(d))
        s == IF d < 0 THEN -1 ELSE 1
    IN  <<(s * n) \div g, (s * d) \div g>>

Rat(n) == <<n, 1>>
RAdd(x, y) == Norm(x[1] * y[2] + y[1] * x[2], x[2] * y[2])
RSub(x, y) == Norm(x[1] * y[2] - y[1] * x[2], x[2] * y[2])
RMul(x, y) == Norm(x[1] * y[1], x[2] * y[2])
RDiv(x, y) == Norm(x[1] * y[2], x[2] * y[1])
RLe(x, y) == x[1] * y[2] <= y[1] * x[2]
RLt(x, y) == x[1] * y[2] < y[1] * x[2]
RMin(x, y) == IF RLt(y, x) THEN y ELSE x

Min(a, b) == IF b < a THEN b ELSE a
Max(a, b) == IF b > a THEN b ELSE a

(***************************************************************************)
(* Constants of the heuristic.                                             *)
(***************************************************************************)
GridSize == 20
PitLossPositions == 2
position_gain_from_fresh_tires == 1
laps_with_gain == 15
PitLaneSeconds == Rat(22)
PitLaneShare == Norm(15, 100)
FreshTireShare == Norm(25, 1000)

\* Optional values: None is the empty sequence, a value v is <<v>>.
None == <<>>
Some(v) == <<v>>
\* Python truthiness of an Optional[int]: None and 0 are false.
Truthy(o) == o # None /\ o[1] # 0

\* An operation either returns a value or raises.
Return(v) == [raised |-> FALSE, value |-> v]
Raise(e) == [raised |-> TRUE, error |-> e]

(***************************************************************************)
(* Repository queries: the rows of the requested race and driver, ordered. *)
(***************************************************************************)
RECURSIVE OrderByLapNumber(_)
OrderByLapNumber(rows) ==
    IF rows = {} THEN <<>>
    ELSE LET r == CHOOSE r \in rows : \A q \in rows : r.lap_number <= q.lap_number
         IN  <<r>> \o OrderByLapNumber(rows \ {r})

\* Mutant: the query skips the first row (OFFSET 1).
get_driver_laps_offset(table) ==
    IF table = {} THEN <<>> ELSE Tail(OrderByLapNumber(table))

get_driver_laps(table) == OrderByLapNumber(table)

RECURSIVE OrderByLap(_)
OrderByLap(rows) ==
    IF rows = {} THEN <<>>
    ELSE LET r == CHOOSE r \in rows : \A q \in rows : r.lap <= q.lap
         IN  <<r>> \o OrderByLap(rows \ {r})

\* Mutant: the rows come back in descending lap order.
RECURSIVE OrderByLapDesc(_)
OrderByLapDesc(rows) ==
    IF rows = {} THEN <<>>
    ELSE LET r == CHOOSE r \in rows : \A q \in rows : r.lap >= q.lap
         IN  <<r>> \o OrderByLapDesc(rows \ {r})

get_driver_pit_stops_desc(table) == OrderByLapDesc(table)

get_driver_pit_stops(table) == OrderByLap(table)

(***************************************************************************)
(* Helpers of PitStopStrategyCalculator.                                   *)
(***************************************************************************)
\* for lap in reversed(lap_data): if lap.lap_number <= target_lap: return lap.position
RECURSIVE ScanReversed(_, _, _)
ScanReversed(lap_data, i, target_lap) ==
    IF i = 0 THEN None
    ELSE IF lap_data[i].lap_number <= target_lap THEN Some(lap_data[i].position)
    ELSE ScanReversed(lap_data, i - 1, target_lap)

\* Mutant: when no lap is at or before the target, the grid size is returned
\* instead of the first lap's position.
_get_position_at_lap_default(lap_data, target_lap) ==
    LET found == ScanReversed(lap_data, Len(lap_data), target_lap)
    IN  IF found # None THEN found[1] ELSE GridSize

_get_position_at_lap(lap_data, target_lap) ==
    LET found == ScanReversed(lap_data, Len(lap_data), target_lap)
    IN  IF found # None THEN found[1]
        ELSE IF lap_data # <<>> THEN lap_data[1].position ELSE GridSize

\* Mutant: the position is looked up at the end of the race (total_laps)
\* instead of at the stop lap.
_simulate_position_after_stop_at_end(lap_data, stop_lap, total_laps) ==
    LET position_at_stop == _get_position_at_lap(lap_data, total_laps)
        position_after_stop == Min(position_at_stop + PitLossPositions, GridSize)
    IN  Max(position_after_stop - position_gain_from_fresh_tires, 1)

\* Mutant: the recovery from fresh tires is not subtracted.
_simulate_position_after_stop_no_recovery(lap_data, stop_lap, total_laps) ==
    LET position_at_stop == _get_position_at_lap(lap_data, stop_lap)
        position_after_stop == Min(position_at_stop + PitLossPositions, GridSize)
    IN  Max(position_after_stop, 1)

\* Mutant: the position after the stop is not capped at the back of the grid.
_simulate_position_after_stop_uncapped(lap_data, stop_lap, total_laps) ==
    LET position_at_stop == _get_position_at_lap(lap_data, stop_lap)
        position_after_stop == position_at_stop + PitLossPositions
    IN  Max(position_after_stop - position_gain_from_fresh_tires, 1)

_simulate_position_after_stop(lap_data, stop_lap, total_laps) ==
    LET position_at_stop == _get_position_at_lap(lap_data, stop_lap)
        position_after_stop == Min(position_at_stop + PitLossPositions, GridSize)
    IN  Max(position_after_stop - position_gain_from_fresh_tires, 1)

RECURSIVE SumLapTimes(_, _)
SumLapTimes(lap_data, i) ==
    IF i = 0 THEN Rat(0)
    ELSE RAdd(SumLapTimes(lap_data, i - 1), Rat(lap_data[i].lap_time_seconds))

\* Mutant: the sum is divided by the last lap's number instead of the number
\* of laps.
avg_lap_time_by_last_lap(lap_data) ==
    RDiv(SumLapTimes(lap_data, Len(lap_data)), Rat(lap_data[Len(lap_data)].lap_number))

\* sum(lap.lap_time_seconds for lap in lap_data) / len(lap_data), on a non-empty list
avg_lap_time(lap_data) == RDiv(SumLapTimes(lap_data, Len(lap_data)), Rat(Len(lap_data)))

_estimate_pit_stop_loss(lap_data, stop_lap) ==
    RAdd(PitLaneSeconds, RMul(avg_lap_time(lap_data), PitLaneShare))

_estimate_fresh_tire_gain(lap_data, stop_lap) ==
    RMul(RMul(avg_lap_time(lap_data), FreshTireShare), Rat(laps_with_gain))

\* Mutant: the final min(confidence, 100) is dropped.
_calculate_confidence_unclamped(position_gain, time_loss, time_gain) ==
    LET position_confidence == Rat(Min(position_gain * 25, 100))
        time_confidence ==
            IF RLt(Rat(0), time_loss)
            THEN RMul(RDiv(time_gain, time_loss), Rat(100))
            ELSE Rat(50)
    IN  RDiv(RAdd(position_confidence, time_confidence), Rat(2))

_calculate_confidence(position_gain, time_loss, time_gain) ==
    LET position_confidence == Rat(Min(position_gain * 25, 100))
        time_confidence ==
            IF RLt(Rat(0), time_loss)
            THEN RMul(RDiv(time_gain, time_loss), Rat(100))
            ELSE Rat(50)
        confidence == RDiv(RAdd(position_confidence, time_confidence), Rat(2))
    IN  RMin(confidence, Rat(100))

\* format(x, ".0f"): the nearest integer, ties to even, "-0" for a negative
\* value that rounds to zero.
Format0f(x) ==
    LET fl == x[1] \div x[2]
        rem2 == 2 * (x[1] - fl * x[2])
        r == IF rem2 < x[2] THEN fl
             ELSE IF rem2 > x[2] THEN fl + 1
             ELSE IF fl % 2 = 0 THEN fl ELSE fl + 1
    IN  IF r = 0 /\ x[1] < 0 THEN "-0" ELSE ToString(r)

\* Mutant: the first branch is taken on position_gain >= 0.
_generate_recommendation_ge(position_gain, original_stop_lap, alternative_stop_lap, confidence_score) ==
    IF position_gain >= 0
    THEN << "Pit stop at lap ", ToString(alternative_stop_lap), " could gain ",
            ToString(position_gain), " positions (confidence: ",
            Format0f(confidence_score), "%). Recommended timing." >>
    ELSE << "Pit stop at lap ", ToString(alternative_stop_lap), " could cost ",
            ToString(Abs(position_gain)), " positions. Current strategy preferred." >>

\* The f-strings, as the sequence of their literal parts and formatted fields.
_generate_recommendation(position_gain, original_stop_lap, alternative_stop_lap, confidence_score) ==
    IF position_gain > 0
    THEN << "Pit stop at lap ", ToString(alternative_stop_lap), " could gain ",
            ToString(position_gain), " positions (confidence: ",
            Format0f(confidence_score), "%). Recommended timing." >>
    ELSE IF position_gain = 0
    THEN << "Pit stop at lap ", ToString(alternative_stop_lap),
            " offers similar results to current strategy. Consider race circumstances." >>
    ELSE << "Pit stop at lap ", ToString(alternative_stop_lap), " could cost ",
            ToString(Abs(position_gain)), " positions. Current strategy preferred." >>

\* Mutant: the laps after the stop include the stop lap itself.
_analyze_tire_strategy_ge(lap_data, stop_lap) ==
    LET Before(lap) == lap.lap_number <= stop_lap
        After(lap) == lap.lap_number >= stop_lap
        before_stop == SelectSeq(lap_data, Before)
        after_stop == SelectSeq(lap_data, After)
        before_compound ==
            IF before_stop # <<>> THEN before_stop[Len(before_stop)].tire_compound
            ELSE "Unknown"
        after_compound ==
            IF after_stop # <<>> THEN after_stop[1].tire_compound ELSE "Unknown"
    IN  <<before_compound, " -> ", after_compound>>

_analyze_tire_strategy(lap_data, stop_lap) ==
    LET Before(lap) == lap.lap_number <= stop_lap
        After(lap) == lap.lap_number > stop_lap
        before_stop == SelectSeq(lap_data, Before)
        after_stop == SelectSeq(lap_data, After)
        before_compound ==
            IF before_stop # <<>> THEN before_stop[Len(before_stop)].tire_compound
            ELSE "Unknown"
        after_compound ==
            IF after_stop # <<>> THEN after_stop[1].tire_compound ELSE "Unknown"
    IN  <<before_compound, " -> ", after_compound>>

\* Mutant: the percentage divides by the degradation instead of first_lap_time.
_analyze_tire_degradation_by_delta(lap_data) ==
    IF lap_data = <<>> \/ Len(lap_data) < 2 THEN Return(<<>>)
    ELSE LET first_lap_time == Rat(lap_data[1].lap_time_seconds)
             last_lap_time == Rat(lap_data[Len(lap_data)].lap_time_seconds)
             degradation == RSub(last_lap_time, first_lap_time)
         IN  IF degradation[1] = 0 THEN Raise("ZeroDivisionError")
             ELSE Return([first_lap_time |-> first_lap_time,
                          last_lap_time |-> last_lap_time,
                          degradation_seconds |-> degradation,
                          degradation_percentage |->
                              RMul(RDiv(degradation, degradation), Rat(100))])

\* The empty dict is the empty sequence; the division by first_lap_time raises
\* ZeroDivisionError when it is 0.
_analyze_tire_degradation(lap_data) ==
    IF lap_data = <<>> \/ Len(lap_data) < 2 THEN Return(<<>>)
    ELSE LET first_lap_time == Rat(lap_data[1].lap_time_seconds)
             last_lap_time == Rat(lap_data[Len(lap_data)].lap_time_seconds)
             degradation == RSub(last_lap_time, first_lap_time)
         IN  IF first_lap_time[1] = 0 THEN Raise("ZeroDivisionError")
             ELSE Return([first_lap_time |-> first_lap_time,
                          last_lap_time |-> last_lap_time,
                          degradation_seconds |-> degradation,
                          degradation_percentage |->
                              RMul(RDiv(degradation, first_lap_time), Rat(100))])

\* Mutant: the operands of the subtraction are swapped.
PositionGain_swapped(original_final_position, alternative_final_position) ==
    alternative_final_position - original_final_position

\* position_gain = original_final_position - alternative_final_position
PositionGain(original_final_position, alternative_final_position) ==
    original_final_position - alternative_final_position

\* calculate_alternative_strategy from the point where both queries have
\* answered.  The guard of the handler keeps the lap list non-empty here; on an
\* empty list sum(...) / len(lap_data) raises ZeroDivisionError.
Simulate(request, laps, actual_pit_stops) ==
    LET alternative_stop_lap == request.alternative_stop_lap
        original_stop_lap ==
            IF actual_pit_stops # <<>> THEN Some(actual_pit_stops[1].lap) ELSE None
        original_final_position == _get_position_at_lap(laps, Len(laps))
        alternative_final_position ==
            _simulate_position_after_stop(laps, alternative_stop_lap, Len(laps))
        position_gain == PositionGain(original_final_position, alternative_final_position)
        time_loss_at_stop == _estimate_pit_stop_loss(laps, alternative_stop_lap)
        time_gain_after_stop == _estimate_fresh_tire_gain(laps, alternative_stop_lap)
        confidence_score ==
            _calculate_confidence(position_gain, time_loss_at_stop, time_gain_after_stop)
        recommendation ==
            _generate_recommendation(position_gain, original_stop_lap,
                                     alternative_stop_lap, confidence_score)
        tire_degradation == _analyze_tire_degradation(laps)
    IN  IF laps = <<>> THEN Raise("ZeroDivisionError")
        ELSE IF tire_degradation.raised THEN tire_degradation
        ELSE Return(
          [driver_id |-> request.driver_id,
           race_id |-> request.race_id,
           scenario_name |-> "Pit Stop Strategy",
           original_stop_lap |-> IF Truthy(original_stop_lap) THEN original_stop_lap[1] ELSE 0,
           alternative_stop_lap |-> alternative_stop_lap,
           original_position_final |-> original_final_position,
           alternative_position_final |-> alternative_final_position,
           position_gain |-> position_gain,
           time_loss_at_stop |-> time_loss_at_stop,
           time_gain_after_stop |-> time_gain_after_stop,
           confidence_score |-> confidence_score,
           recommendation |-> recommendation,
           detailed_analysis |->
             [total_laps |-> Len(laps),
              original_tire_strategy |->
                  IF Truthy(original_stop_lap)
                  THEN _analyze_tire_strategy(laps, original_stop_lap[1])
                  ELSE <<"Unknown">>,
              alternative_tire_strategy |-> _analyze_tire_strategy(laps, alternative_stop_lap),
              tire_degradation |-> tire_degradation.value,
              competitive_context |-> "Lahir simulation vs 1 pit stop leader"]])

(***************************************************************************)
(* State machine of one request to the shared calculator.                  *)
(***************************************************************************)
LapAttributes == [position : Positions, lap_time_seconds : LapTimes,
                  tire_compound : Compounds]

LapRow(n, a) == [lap_number |-> n, position |-> a.position,
                 lap_time_seconds |-> a.lap_time_seconds,
                 tire_compound |-> a.tire_compound]

\* Tables the lap store can hold for one driver in one race: at most MaxLaps
\* rows, one per lap number.
LapTables ==
    UNION { { {LapRow(n, f[n]) : n \in ns} : f \in [ns -> LapAttributes] }
            : ns \in {x \in SUBSET LapNumbers : Cardinality(x) <= MaxLaps} }

Init ==
    /\ lap_table \in LapTables
    /\ pit_table \in PitStopTables
    /\ pc = "idle"
    /\ req = None
    /\ driver_laps = <<>>
    /\ pit_queried = FALSE
    /\ result = None
    /\ error = None
    /\ response = None
    /\ TasksIdle /\ AuthIdle /\ ImportIdle

\* Mutant: `except Exception` catches every failure.
simulate_pit_stop_strategy_all_500(out) ==
    IF ~out.raised
    THEN [status_code |-> 200, error_code |-> None, data |-> Some(out.value)]
    ELSE [status_code |-> 500, error_code |-> Some("SIMULATION_ERROR"), data |-> None]

\* GET /simulations/pit-stop: what the endpoint answers for an outcome of the
\* calculation.  `except ValueError` comes before `except Exception`.
simulate_pit_stop_strategy(out) ==
    IF ~out.raised
    THEN [status_code |-> 200, error_code |-> None, data |-> Some(out.value)]
    ELSE IF out.error = "ValueError"
    THEN [status_code |-> 400, error_code |-> Some("INVALID_INPUT"), data |-> None]
    ELSE [status_code |-> 500, error_code |-> Some("SIMULATION_ERROR"), data |-> None]

\* The handler is entered and suspends on `await lap_data.get_driver_laps(...)`.
Call(race_id, driver_id, alternative_stop_lap) ==
    /\ pc = "idle"
    /\ pc' = "await_laps"
    /\ req' = Some([race_id |-> race_id, driver_id |-> driver_id,
                    alternative_stop_lap |-> alternative_stop_lap])
    /\ UNCHANGED <<lap_table, pit_table, driver_laps, pit_queried, result, error,
                   response>>
    /\ UNCHANGED otherThanCalc

\* The lap query answers; an empty answer raises ValueError, otherwise the
\* handler suspends on `await pit_stop.get_driver_pit_stops(...)`.
\* Mutant: the `if not driver_laps` guard is missing.
HasLaps_unguarded(laps) == TRUE

HasLaps(laps) == laps # <<>>

LapsAnswered ==
    /\ pc = "await_laps"
    /\ driver_laps' = get_driver_laps(lap_table)
    /\ IF HasLaps(driver_laps')
       THEN /\ pc' = "await_pit_stops"
            /\ pit_queried' = TRUE
            /\ error' = error
            /\ response' = response
       ELSE /\ pc' = "raised"
            /\ error' = Some("ValueError")
            /\ pit_queried' = pit_queried
            /\ response' = Some(simulate_pit_stop_strategy(Raise("ValueError")))
    /\ UNCHANGED <<lap_table, pit_table, req, result>>
    /\ UNCHANGED otherThanCalc

\* The pit-stop query answers and the rest of the handler runs to its end.
PitStopsAnswered ==
    /\ pc = "await_pit_stops"
    /\ LET out == Simulate(req[1], driver_laps, get_driver_pit_stops(pit_table))
       IN  /\ IF out.raised
              THEN /\ pc' = "raised"
                   /\ error' = Some(out.error)
                   /\ result' = result
              ELSE /\ pc' = "returned"
                   /\ result' = Some(out.value)
                   /\ error' = error
           /\ response' = Some(simulate_pit_stop_strategy(out))
    /\ UNCHANGED <<lap_table, pit_table, req, driver_laps, pit_queried>>
    /\ UNCHANGED otherThanCalc

Next ==
    \/ \E r \in RaceIds, d \in DriverIds, a \in StopLaps : Call(r, d, a)
    \/ LapsAnswered
    \/ PitStopsAnswered

Spec == Init /\ [][Next]_vars

\* The same machine started on tables that range over the whole grid, with one
\* lap time, one compound and no recorded pit stop.
GridAttributes == [position : 1..GridSize, lap_time_seconds : {90},
                   tire_compound : {"MEDIUM"}]

GridTables ==
    UNION { { {LapRow(n, f[n]) : n \in ns} : f \in [ns -> GridAttributes] }
            : ns \in {x \in SUBSET LapNumbers : Cardinality(x) <= MaxLaps} }

InitGrid ==
    /\ lap_table \in GridTables
    /\ pit_table = {}
    /\ pc = "idle"
    /\ req = None
    /\ driver_laps = <<>>
    /\ pit_queried = FALSE
    /\ result = None
    /\ error = None
    /\ response = None
    /\ TasksIdle /\ AuthIdle /\ ImportIdle

SpecGrid == InitGrid /\ [][Next]_vars

(***************************************************************************)
(* Properties.                                                             *)
(***************************************************************************)
Returned == pc = "returned"
Raised == pc = "raised"

\* The stored rows with the smallest and the greatest lap number.
FirstRow(table) == CHOOSE r \in table : \A q \in table : r.lap_number <= q.lap_number
LastRow(table) == CHOOSE r \in table : \A q \in table : q.lap_number <= r.lap_number

PositiveLapTimes == \A r \in lap_table : r.lap_time_seconds > 0
PositionsOnGrid == \A r \in lap_table : r.position \in 1..GridSize

\* C1: whenever a result is returned, original_position_final is the position
\* of the last lap record (the one with the greatest lap number), also when the
\* recorded lap numbers are not contiguous or do not start at 1.
C1_OriginalFinalIsLastLap ==
    Returned => result[1].original_position_final = LastRow(lap_table).position

\* The recorded laps are numbered 1..n, so that the position looked up at lap
\* len(driver_laps) is the last lap's.
ContiguousLaps == {r.lap_number : r \in lap_table} = 1..Cardinality(lap_table)

\* C2: for positive lap times and positions in 1..20, the confidence_score of
\* every returned result lies in the closed range [0, 100] (stated here for laps
\* numbered 1..n already).
C2_ConfidenceInRange ==
    (Returned /\ PositiveLapTimes /\ PositionsOnGrid /\ ContiguousLaps)
        => /\ RLe(Rat(0), result[1].confidence_score)
           /\ RLe(result[1].confidence_score, Rat(100))

\* C3: the confidence_score of every returned result is at most 100.
C3_ConfidenceAtMost100 ==
    Returned => RLe(result[1].confidence_score, Rat(100))

\* C3 witness: a result with a large positive position_gain and a
\* time_gain/time_loss ratio above 1, where only the final clamp keeps the
\* score at 100.
C3_Witness ==
    /\ Returned
    /\ result[1].position_gain >= 4
    /\ RLt(result[1].time_loss_at_stop, result[1].time_gain_after_stop)
    /\ result[1].confidence_score = Rat(100)

ResultFields ==
    {"driver_id", "race_id", "scenario_name", "original_stop_lap",
     "alternative_stop_lap", "original_position_final",
     "alternative_position_final", "position_gain", "time_loss_at_stop",
     "time_gain_after_stop", "confidence_score", "recommendation",
     "detailed_analysis"}

AnalysisFields ==
    {"total_laps", "original_tire_strategy", "alternative_tire_strategy",
     "tire_degradation", "competitive_context"}

\* The stored laps satisfy the LapRecord data model.
ValidLaps ==
    /\ lap_table # {}
    /\ \A r \in lap_table : r.lap_time_seconds > 0 /\ r.position >= 1

\* C4: on non-empty laps with positive lap times and positions >= 1 the
\* calculation never raises, for every stop lap and with or without pit stops,
\* and what it returns has every field of PitStopSimulation.
C4_ValidLapsNeverRaise ==
    ValidLaps =>
        /\ ~Raised
        /\ Returned => /\ DOMAIN result[1] = ResultFields
                       /\ DOMAIN result[1].detailed_analysis = AnalysisFields

\* C4 witness: a result for two valid laps with equal lap times, a stop lap
\* before every recorded lap, and no actual pit stop.
C4_Witness ==
    /\ Returned
    /\ ValidLaps
    /\ Cardinality(lap_table) >= 2
    /\ \A r \in lap_table : r.lap_time_seconds = FirstRow(lap_table).lap_time_seconds
    /\ pit_table = {}
    /\ req[1].alternative_stop_lap < FirstRow(lap_table).lap_number

\* C5: with no lap records stored, once the lap query has answered the call
\* has failed with ValueError (the no-telemetry error), there is no result, and
\* the pit-stop query was never issued.
C5_EmptyLapsFailFirst ==
    (lap_table = {} /\ pc \notin {"idle", "await_laps"}) =>
        /\ Raised
        /\ error = Some("ValueError")
        /\ result = None
        /\ ~pit_queried

\* C5 witness: the call has failed on an empty lap table while pit stops are
\* stored for the driver.
C5_Witness ==
    /\ Raised
    /\ lap_table = {}
    /\ pit_table # {}
    /\ error = Some("ValueError")

\* C6: in every returned result position_gain is original_position_final minus
\* alternative_position_final.
C6_GainIsDifference ==
    Returned =>
        result[1].position_gain =
            result[1].original_position_final - result[1].alternative_position_final

\* C6 witness: a result whose two final positions differ.
C6_Witness ==
    /\ Returned
    /\ result[1].original_position_final > result[1].alternative_position_final
    /\ result[1].position_gain > 0

\* The rows at or before the requested stop lap.
RowsUpToStop == {r \in lap_table : r.lap_number <= req[1].alternative_stop_lap}

\* C7: when some lap is at or before alternative_stop_lap,
\* alternative_position_final = max(min(p + 2, 20) - 1, 1) for p the position of
\* the last such lap.
C7_AlternativeFinalFormula ==
    (Returned /\ RowsUpToStop # {}) =>
        LET p == LastRow(RowsUpToStop).position
        IN  result[1].alternative_position_final = Max(Min(p + 2, 20) - 1, 1)

\* C7 witness: a result for a stop lap that lies between two recorded laps
\* with different positions, the earlier one at the back of the grid.
C7_Witness ==
    /\ Returned
    /\ RowsUpToStop # {}
    /\ RowsUpToStop # lap_table
    /\ LastRow(RowsUpToStop).position = 20
    /\ LastRow(lap_table).position = 3
    /\ result[1].alternative_position_final = 19

OutOfRangeAbove == \A r \in lap_table : r.lap_number < req[1].alternative_stop_lap
OutOfRangeBelow == \A r \in lap_table : req[1].alternative_stop_lap < r.lap_number

\* C8: a stop lap outside the recorded range is no error and the lookup
\* saturates: above every recorded lap the position at stop is the last lap's,
\* below every recorded lap it is the first lap's.
C8_LookupSaturates ==
    driver_laps # <<>> =>
        LET alt == req[1].alternative_stop_lap
            position_at_stop == _get_position_at_lap(driver_laps, alt)
        IN  /\ OutOfRangeAbove => position_at_stop = LastRow(lap_table).position
            /\ OutOfRangeBelow => position_at_stop = FirstRow(lap_table).position
            /\ (OutOfRangeAbove /\ Returned) =>
                   result[1].alternative_position_final =
                       Max(Min(LastRow(lap_table).position + 2, 20) - 1, 1)
            /\ (OutOfRangeBelow /\ Returned) =>
                   result[1].alternative_position_final =
                       Max(Min(FirstRow(lap_table).position + 2, 20) - 1, 1)
            /\ ((OutOfRangeAbove \/ OutOfRangeBelow) /\ ValidLaps) => ~Raised

\* C8 witness: a result for a stop lap below every recorded lap, where the
\* first and the last lap have different positions.
C8_Witness ==
    /\ Returned
    /\ OutOfRangeBelow
    /\ Cardinality(lap_table) >= 2
    /\ FirstRow(lap_table).position = 20
    /\ LastRow(lap_table).position = 1
    /\ result[1].alternative_position_final = 19

\* The formatted fields of an f-string are its even parts.
IsGainTemplate(rec) == Len(rec) = 7 /\ rec[3] = " could gain "
IsSimilarTemplate(rec) == Len(rec) = 3
IsCostTemplate(rec) == Len(rec) = 5 /\ rec[3] = " could cost "
Fields(rec) == {rec[i] : i \in {j \in DOMAIN rec : j % 2 = 0}}

TemplateBySign ==
    LET rec == result[1].recommendation
        gain == result[1].position_gain
    IN  /\ (gain > 0) <=> IsGainTemplate(rec)
        /\ (gain = 0) <=> IsSimilarTemplate(rec)
        /\ (gain < 0) <=> IsCostTemplate(rec)
        /\ ToString(result[1].alternative_stop_lap) \in Fields(rec)
        /\ rec[2] = ToString(req[1].alternative_stop_lap)

\* C9 as stated: the template is chosen by the sign of position_gain, every
\* template embeds alternative_stop_lap, and both the positive and the negative
\* template embed the magnitude of position_gain and the confidence score.
C9_AsStated ==
    Returned =>
        LET rec == result[1].recommendation
            gain == result[1].position_gain
        IN  /\ TemplateBySign
            /\ gain # 0 =>
                 /\ ToString(Abs(gain)) \in Fields(rec)
                 /\ Len(rec) >= 6
                 /\ rec[6] = Format0f(result[1].confidence_score)

\* C9 amended: as above, but only the positive template embeds the confidence
\* score; the negative template has two fields, the stop lap and the magnitude.
C9_TemplateBySign ==
    Returned =>
        LET rec == result[1].recommendation
            gain == result[1].position_gain
        IN  /\ TemplateBySign
            /\ gain > 0 => /\ rec[4] = ToString(gain)
                           /\ rec[6] = Format0f(result[1].confidence_score)
            /\ gain < 0 => /\ rec[4] = ToString(-gain)
                           /\ Cardinality({i \in DOMAIN rec : i % 2 = 0}) = 2

\* C9 witness: a result with a negative position_gain of magnitude above 1.
C9_Witness ==
    /\ Returned
    /\ result[1].position_gain < -1
    /\ IsCostTemplate(result[1].recommendation)

\* C10: when every lap has the same position p, 1 <= p <= 18, the result has
\* alternative_position_final = p + 1 and position_gain = -1, and the
\* recommendation is the "could cost" template with magnitude 1.
C10_ConstantPosition ==
    (Returned /\ \E p \in 1..18 : \A r \in lap_table : r.position = p) =>
        LET p == FirstRow(lap_table).position
        IN  /\ result[1].alternative_position_final = p + 1
            /\ result[1].position_gain = -1
            /\ IsCostTemplate(result[1].recommendation)
            /\ result[1].recommendation[4] = "1"

\* C10 witness: Scenario C, two laps at position 5 and a stop lap between them.
C10_Witness ==
    /\ Returned
    /\ Cardinality(lap_table) = 2
    /\ \A r \in lap_table : r.position = 5
    /\ RowsUpToStop # {}
    /\ RowsUpToStop # lap_table
    /\ result[1].alternative_position_final = 6

RECURSIVE SumOfLapTimes(_)
SumOfLapTimes(rows) ==
    IF rows = {} THEN 0
    ELSE LET r == CHOOSE r \in rows : TRUE
         IN  r.lap_time_seconds + SumOfLapTimes(rows \ {r})

\* C11: time_loss_at_stop = 22 + 0.15 A and time_gain_after_stop = 0.025 * 15 * A
\* for A the mean lap time (sum S over n laps); laps of 90 s give 35.5 and
\* 33.75; both are >= 0 when all lap times are positive.
C11_TimeEstimates ==
    Returned =>
        LET S == SumOfLapTimes(lap_table)
            n == Cardinality(lap_table)
            loss == result[1].time_loss_at_stop
            gain == result[1].time_gain_after_stop
        IN  /\ loss[1] * (100 * n) = loss[2] * (2200 * n + 15 * S)
            /\ gain[1] * (1000 * n) = gain[2] * (375 * S)
            /\ (\A r \in lap_table : r.lap_time_seconds = 90) =>
                   loss = <<71, 2>> /\ gain = <<135, 4>>
            /\ PositiveLapTimes => RLe(Rat(0), loss) /\ RLe(Rat(0), gain)

\* C11 witness: a result for two laps of different positive lap times, whose
\* numbers are not 1 and 2.
C11_Witness ==
    /\ Returned
    /\ PositiveLapTimes
    /\ Cardinality(lap_table) = 2
    /\ ~ContiguousLaps
    /\ FirstRow(lap_table).lap_time_seconds # LastRow(lap_table).lap_time_seconds
    /\ result[1].time_loss_at_stop = <<151, 4>>

\* C12: original_stop_lap is the smallest lap among the driver's pit-stop
\* records, and is 0 exactly when there is none.
C12_OriginalStopLap ==
    Returned =>
        /\ pit_table = {} <=> result[1].original_stop_lap = 0
        /\ pit_table # {} =>
             /\ \E s \in pit_table : s.lap = result[1].original_stop_lap
             /\ \A s \in pit_table : result[1].original_stop_lap <= s.lap

\* C12 witness: a result for a driver with two pit stops.
C12_Witness ==
    /\ Returned
    /\ Cardinality(pit_table) = 2
    /\ result[1].original_stop_lap = 1

\* The label for a stop lap, from the stored rows.
LabelParts(stop_lap) ==
    LET before == {r \in lap_table : r.lap_number <= stop_lap}
        after == {r \in lap_table : r.lap_number > stop_lap}
    IN  << IF before # {} THEN LastRow(before).tire_compound ELSE "Unknown",
           IF after # {} THEN FirstRow(after).tire_compound ELSE "Unknown" >>

\* C13: the tire-transition label of a stop lap is the compound of the last lap
\* at or before it, then the compound of the first lap after it, with "Unknown"
\* on a side that has no lap; the computation does not raise on either side
\* being empty.
C13_TireTransitionLabel ==
    /\ Returned =>
         LET analysis == result[1].detailed_analysis
             alt == analysis.alternative_tire_strategy
             orig == analysis.original_tire_strategy
         IN  /\ Len(alt) = 3
             /\ <<alt[1], alt[3]>> = LabelParts(req[1].alternative_stop_lap)
             /\ pit_table # {} =>
                  /\ Len(orig) = 3
                  /\ <<orig[1], orig[3]>> = LabelParts(result[1].original_stop_lap)
    /\ (req # None /\ ValidLaps /\ (RowsUpToStop = {} \/ RowsUpToStop = lap_table))
         => ~Raised

\* C13 witness: a result for a stop lap with no lap recorded after it, after
\* laps on two different compounds.
C13_Witness ==
    /\ Returned
    /\ RowsUpToStop = lap_table
    /\ Cardinality(lap_table) = 2
    /\ FirstRow(lap_table).tire_compound = "SOFT"
    /\ LastRow(lap_table).tire_compound = "HARD"
    /\ req[1].alternative_stop_lap = LastRow(lap_table).lap_number
    /\ result[1].detailed_analysis.alternative_tire_strategy = <<"HARD", " -> ", "Unknown">>

\* C16: the endpoint answers the no-telemetry failure with 400 INVALID_INPUT,
\* every other failure of the calculation with 500 SIMULATION_ERROR, and wraps
\* a result (status 200) only when the calculation returned one.
C16_EndpointMapping ==
    /\ (Raised /\ lap_table = {}) =>
           /\ response[1].status_code = 400
           /\ response[1].error_code = Some("INVALID_INPUT")
           /\ response[1].data = None
    /\ (Raised /\ lap_table # {}) =>
           /\ response[1].status_code = 500
           /\ response[1].error_code = Some("SIMULATION_ERROR")
           /\ response[1].data = None
    /\ Returned =>
           /\ response[1].status_code = 200
           /\ response[1].error_code = None
           /\ response[1].data = result
    /\ (response # None /\ response[1].data # None) => Returned
    /\ response # None <=> (Returned \/ Raised)

\* C16 witness: the calculation failed on the division by a first lap time of
\* 0 and the endpoint answered 500.
C16_Witness ==
    /\ Raised
    /\ error = Some("ZeroDivisionError")
    /\ response[1].status_code = 500

(***************************************************************************)
(* Concurrent invocations on the singleton pit_stop_calculator.  Each      *)
(* invocation is a coroutine with its own frame; the event loop switches   *)
(* tasks only at the two awaits.                                           *)
(***************************************************************************)
MaxTasks == 3
TaskIds == 1..MaxTasks
TaskDrivers == {1, 2}
TaskStopLaps == {1, 2}

TaskLapTables ==
    { {},
      {LapRow(1, [position |-> 2, lap_time_seconds |-> 90, tire_compound |-> "SOFT"])},
      {LapRow(1, [position |-> 1, lap_time_seconds |-> 90, tire_compound |-> "SOFT"]),
       LapRow(2, [position |-> 2, lap_time_seconds |-> 120, tire_compound |-> "HARD"])} }

\* Driver 1 made a stop, driver 2 has no stop on record.
TaskPitStore == [d \in TaskDrivers |-> IF d = 1 THEN {[lap |-> 2]} ELSE {}]

\* Mutant: the arguments are kept on the instance, so a later call overwrites
\* them for the invocations still running.
BindArguments_on_instance(fs, t, args) ==
    [u \in DOMAIN fs |->
        IF u = t THEN Some([race_id |-> args.race_id, driver_id |-> args.driver_id,
                            alternative_stop_lap |-> args.alternative_stop_lap,
                            driver_laps |-> <<>>])
        ELSE IF fs[u] = None THEN None
        ELSE Some([fs[u][1] EXCEPT !.driver_id = args.driver_id,
                                   !.alternative_stop_lap = args.alternative_stop_lap])]

\* def calculate_alternative_strategy(self, db, race_id, driver_id,
\* alternative_stop_lap): the parameters are locals of the new frame.
BindArguments(fs, t, args) ==
    [fs EXCEPT ![t] = Some([race_id |-> args.race_id, driver_id |-> args.driver_id,
                            alternative_stop_lap |-> args.alternative_stop_lap,
                            driver_laps |-> <<>>])]

\* Mutant: the rows are kept on the instance (self.driver_laps), so every
\* running invocation sees the rows fetched last.
BindDriverLaps_on_instance(fs, t, laps) ==
    [u \in DOMAIN fs |->
        IF fs[u] = None THEN None ELSE Some([fs[u][1] EXCEPT !.driver_laps = laps])]

\* Mutant: only the laps up to the requested stop lap are kept.
BindDriverLaps_up_to_stop(fs, t, laps) ==
    [fs EXCEPT ![t] = Some([fs[t][1] EXCEPT !.driver_laps =
        SelectSeq(laps, LAMBDA r : r.lap_number <= fs[t][1].alternative_stop_lap)])]

\* driver_laps = await lap_data.get_driver_laps(...): a local of the frame.
BindDriverLaps(fs, t, laps) ==
    [fs EXCEPT ![t] = Some([fs[t][1] EXCEPT !.driver_laps = laps])]

InitTasks ==
    /\ lap_store \in [TaskDrivers -> TaskLapTables]
    /\ pit_store = TaskPitStore
    /\ task_pc = [t \in TaskIds |-> "idle"]
    /\ task_args = [t \in TaskIds |-> None]
    /\ frames = [t \in TaskIds |-> None]
    /\ task_result = [t \in TaskIds |-> None]
    /\ CalcIdle /\ AuthIdle /\ ImportIdle

\* A caller invokes the coroutine; it runs to the first await.
CallTask(t, driver_id, alternative_stop_lap) ==
    /\ task_pc[t] = "idle"
    /\ LET args == [race_id |-> 1, driver_id |-> driver_id,
                    alternative_stop_lap |-> alternative_stop_lap]
       IN  /\ task_args' = [task_args EXCEPT ![t] = Some(args)]
           /\ frames' = BindArguments(frames, t, args)
    /\ task_pc' = [task_pc EXCEPT ![t] = "await_laps"]
    /\ UNCHANGED <<lap_store, pit_store, task_result>>
    /\ UNCHANGED otherThanTasks

\* The lap query of task t answers; the task runs to the second await or raises.
TaskLapsAnswered(t) ==
    /\ task_pc[t] = "await_laps"
    /\ frames' = BindDriverLaps(frames, t,
                                get_driver_laps(lap_store[frames[t][1].driver_id]))
    /\ IF HasLaps(frames'[t][1].driver_laps)
       THEN /\ task_pc' = [task_pc EXCEPT ![t] = "await_pit_stops"]
            /\ task_result' = task_result
       ELSE /\ task_pc' = [task_pc EXCEPT ![t] = "raised"]
            /\ task_result' = [task_result EXCEPT ![t] = Some(Raise("ValueError"))]
    /\ UNCHANGED <<lap_store, pit_store, task_args>>
    /\ UNCHANGED otherThanTasks

\* The pit-stop query of task t answers; the task runs to its end.
TaskPitStopsAnswered(t) ==
    /\ task_pc[t] = "await_pit_stops"
    /\ LET f == frames[t][1]
           out == Simulate(f, f.driver_laps, get_driver_pit_stops(pit_store[f.driver_id]))
       IN  /\ task_result' = [task_result EXCEPT ![t] = Some(out)]
           /\ task_pc' = [task_pc EXCEPT ![t] = IF out.raised THEN "raised" ELSE "returned"]
    /\ UNCHANGED <<lap_store, pit_store, task_args, frames>>
    /\ UNCHANGED otherThanTasks

NextTasks ==
    \/ \E t \in TaskIds, d \in TaskDrivers, a \in TaskStopLaps : CallTask(t, d, a)
    \/ \E t \in TaskIds : TaskLapsAnswered(t)
    \/ \E t \in TaskIds : TaskPitStopsAnswered(t)

SpecTasks == InitTasks /\ [][NextTasks]_vars

TaskDone(t) == task_pc[t] \in {"returned", "raised"}

\* What the invocation with these arguments does when no other task runs:
\* the body of calculate_alternative_strategy from its first to its last line.
Alone(args) ==
    LET laps == get_driver_laps(lap_store[args.driver_id])
    IN  IF ~HasLaps(laps) THEN Raise("ValueError")
        ELSE Simulate(args, laps, get_driver_pit_stops(pit_store[args.driver_id]))

\* C14: two finished invocations that were given the same lap records, the
\* same pit-stop records and the same alternative_stop_lap have outcomes equal
\* in every field, whatever the other invocations did before or between them.
C14_Deterministic ==
    \A t, u \in TaskIds :
        (/\ TaskDone(t) /\ TaskDone(u)
         /\ task_args[t] = task_args[u]) => task_result[t] = task_result[u]

\* C14 witness: two invocations with equal arguments returned a result while a
\* third one, for the other driver with other rows, ran between them.
C14_Witness ==
    /\ task_pc[1] = "returned" /\ task_pc[3] = "returned"
    /\ task_args[1] = task_args[3]
    /\ task_pc[2] = "await_pit_stops"
    /\ task_args[2][1].driver_id # task_args[1][1].driver_id
    /\ lap_store[1] # lap_store[2]
    /\ task_result[1] = task_result[3]

\* C15: every invocation, however the tasks interleave at their awaits, ends
\* with the outcome it has when run alone, and while it runs its locals are
\* its own arguments and its own rows.
C15_ConcurrentAsAlone ==
    \A t \in TaskIds :
        /\ TaskDone(t) => task_result[t] = Some(Alone(task_args[t][1]))
        /\ task_pc[t] # "idle" =>
              /\ frames[t][1].driver_id = task_args[t][1].driver_id
              /\ frames[t][1].alternative_stop_lap = task_args[t][1].alternative_stop_lap
        /\ task_pc[t] \in {"await_pit_stops", "returned"} =>
              frames[t][1].driver_laps = get_driver_laps(lap_store[task_args[t][1].driver_id])

\* C15 witness: three invocations with pairwise different arguments were in
\* flight together (the second entered while the first was suspended, and
\* finished first) and all returned different results.
C15_Witness ==
    /\ \A t \in TaskIds : task_pc[t] = "returned"
    /\ task_result[1] # task_result[2]
    /\ task_result[2] # task_result[3]
    /\ task_result[1] # task_result[3]
    /\ task_args[1][1].driver_id # task_args[2][1].driver_id

(***************************************************************************)
(* POST /auth/register.                                                    *)
(***************************************************************************)
MaxRegs == 2
RegIds == 1..MaxRegs
Emails == {"a@example.com", "b@example.com"}
Passwords == {"password123", "password456"}
Times == {1, 2}
ACCESS_TOKEN_EXPIRE_MINUTES == 60 * 24 * 8
DefaultExpireMinutes == 15

\* UserCreate: email, password, password_confirm.
UserCreate == [email : Emails, password : Passwords, password_confirm : Passwords]

\* A row of the users table; tier has the column default.
User(id, email) == [id |-> id, email |-> email, tier |-> "freemium"]

\* The table before any request of the behaviour.
UserTables == {{}, {User(1, "a@example.com")}}

\* select(User).where(User.email == email) ... scalar_one_or_none()
get_user_by_email(table, email) ==
    IF \E u \in table : u.email = email
    THEN Some(CHOOSE u \in table : u.email = email)
    ELSE None

\* INSERT of a user; the unique index on users.email rejects a second row
\* with the same email.
create_user(table, user_in) ==
    IF \E u \in table : u.email = user_in.email
    THEN Raise("IntegrityError")
    ELSE Return(User(Cardinality(table) + 1, user_in.email))

\* jwt.encode(claims, key, algorithm) and jwt.decode(token, key, algorithms).
jwt_encode(claims, key, algorithm) == [payload |-> claims, alg |-> algorithm, signed_with |-> key]
jwt_decode(token, key, algorithms) ==
    IF token.signed_with = key /\ token.alg \in algorithms
    THEN Return(token.payload)
    ELSE Raise("JWTError")

\* Mutant: the token is encoded without the expiry.
create_access_token_no_exp(data, expires_delta, now) ==
    jwt_encode(data, "SECRET_KEY", "HS256")

\* create_access_token: a copy of data with "exp" added, signed HS256.
create_access_token(data, expires_delta, now) ==
    LET expire == IF expires_delta # None /\ expires_delta[1] # 0
                  THEN now + expires_delta[1]
                  ELSE now + DefaultExpireMinutes
        to_encode == [exp |-> expire] @@ data
    IN  jwt_encode(to_encode, "SECRET_KEY", "HS256")

UserPublic(user) == [id |-> user.id, email |-> user.email, tier |-> user.tier]

HTTPException(status_code, code) ==
    [status_code |-> status_code, error_code |-> Some(code), data |-> None]

\* Mutant: the confirmation is not compared.
PasswordsDiffer_unchecked(user_in) == FALSE

\* Mutant: the confirmation is compared only when no user has the email, as
\* if the email check came first.
PasswordsDiffer_after_email(user_in) ==
    /\ user_in.password # user_in.password_confirm
    /\ ~\E u \in users : u.email = user_in.email

\* if user_in.password != user_in.password_confirm
PasswordsDiffer(user_in) == user_in.password # user_in.password_confirm

\* Mutant: the lookup's answer is ignored.
EmailTaken_ignored(existing_user) == FALSE

\* if existing_user
EmailTaken(existing_user) == existing_user # None

InitRegister ==
    /\ users \in UserTables
    /\ reg_pc = [q \in RegIds |-> "idle"]
    /\ reg_in = [q \in RegIds |-> None]
    /\ reg_response = [q \in RegIds |-> None]
    /\ CalcIdle /\ TasksIdle /\ ImportIdle

\* No request is between its arrival and its response.
NoRegisterInFlight == \A q \in RegIds : reg_pc[q] \in {"idle", "responded"}

Respond(q, r) ==
    /\ reg_pc' = [reg_pc EXCEPT ![q] = "responded"]
    /\ reg_response' = [reg_response EXCEPT ![q] = Some(r)]

\* The request arrives: the password check, then the handler suspends on
\* `await get_user_by_email(...)`.
Register(q, user_in) ==
    /\ reg_pc[q] = "idle"
    /\ reg_in' = [reg_in EXCEPT ![q] = Some(user_in)]
    /\ IF PasswordsDiffer(user_in)
       THEN Respond(q, HTTPException(400, "PASSWORD_MISMATCH"))
       ELSE /\ reg_pc' = [reg_pc EXCEPT ![q] = "await_get_user"]
            /\ reg_response' = reg_response
    /\ UNCHANGED users
    /\ UNCHANGED otherThanAuth

\* The lookup answers: the email check, then the handler suspends on
\* `await create_user(...)`.
GetUserAnswered(q) ==
    /\ reg_pc[q] = "await_get_user"
    /\ LET existing_user == get_user_by_email(users, reg_in[q][1].email)
       IN  IF EmailTaken(existing_user)
           THEN Respond(q, HTTPException(400, "EMAIL_EXISTS"))
           ELSE /\ reg_pc' = [reg_pc EXCEPT ![q] = "await_create_user"]
                /\ reg_response' = reg_response
    /\ UNCHANGED <<users, reg_in>>
    /\ UNCHANGED otherThanAuth

\* The insert answers: the token is made and the response built; an exception
\* of the insert is not caught by the handler and becomes a 500.
CreateUserAnswered(q, now) ==
    /\ reg_pc[q] = "await_create_user"
    /\ LET out == create_user(users, reg_in[q][1])
       IN  IF out.raised
           THEN /\ Respond(q, [status_code |-> 500, error_code |-> None, data |-> None])
                /\ users' = users
           ELSE LET user == out.value
                    access_token ==
                        create_access_token([sub |-> user.email],
                                            Some(ACCESS_TOKEN_EXPIRE_MINUTES), now)
                    auth_data == [access_token |-> access_token,
                                  token_type |-> "bearer",
                                  user |-> UserPublic(user)]
                IN  /\ users' = users \cup {user}
                    /\ Respond(q, [status_code |-> 201, error_code |-> None,
                                   data |-> Some(auth_data)])
    /\ UNCHANGED reg_in
    /\ UNCHANGED otherThanAuth

\* Requests served one after the other.
NextRegister ==
    \/ \E q \in RegIds, user_in \in UserCreate : NoRegisterInFlight /\ Register(q, user_in)
    \/ \E q \in RegIds : GetUserAnswered(q)
    \/ \E q \in RegIds, now \in Times : CreateUserAnswered(q, now)

SpecRegister == InitRegister /\ [][NextRegister]_vars

\* Request q receives its response in this step.
RespondsNow(q) == reg_pc[q] # "responded" /\ reg_pc'[q] = "responded"

\* A user with this email is stored.
EmailStored(email) == \E u \in users : u.email = email

AtMostOneUserPerEmail == \A u, v \in users : u.email = v.email => u = v

\* C17 as stated: every request whose email is already stored is answered
\* 400 EMAIL_EXISTS and leaves the users unchanged, and no two stored users
\* share an email.
C17_AsStated ==
    /\ [][\A q \in RegIds :
            (RespondsNow(q) /\ EmailStored(reg_in'[q][1].email)) =>
                /\ reg_response'[q] = Some(HTTPException(400, "EMAIL_EXISTS"))
                /\ users' = users]_vars
    /\ []AtMostOneUserPerEmail

\* C17, amended: a request with matching passwords whose email is already
\* stored is answered 400 EMAIL_EXISTS and leaves the users unchanged; a
\* request whose email is already stored never changes the users; and no two
\* stored users share an email.
C17_ExistingEmail ==
    /\ [][\A q \in RegIds :
            (RespondsNow(q) /\ EmailStored(reg_in'[q][1].email)) =>
                /\ ~PasswordsDiffer(reg_in'[q][1]) =>
                       reg_response'[q] = Some(HTTPException(400, "EMAIL_EXISTS"))
                /\ reg_response'[q][1].status_code = 400
                /\ users' = users]_vars
    /\ []AtMostOneUserPerEmail

\* C17 witness: one request created the user and a later one with the same
\* email, and another password, was answered EMAIL_EXISTS; one user is stored.
C17_Witness ==
    /\ \A q \in RegIds : reg_pc[q] = "responded"
    /\ reg_response[1][1].status_code = 201
    /\ reg_response[2] = Some(HTTPException(400, "EMAIL_EXISTS"))
    /\ reg_in[1][1].email = reg_in[2][1].email
    /\ reg_in[1][1].password # reg_in[2][1].password
    /\ Cardinality(users) = 1

\* C18: a request whose password differs from password_confirm is answered
\* 400 PASSWORD_MISMATCH at once, with no data (no token), and the users are
\* unchanged.
C18_PasswordMismatch ==
    [][\A q \in RegIds :
         (reg_pc[q] = "idle" /\ reg_pc'[q] # "idle"
          /\ reg_in'[q][1].password # reg_in'[q][1].password_confirm) =>
             /\ reg_pc'[q] = "responded"
             /\ reg_response'[q] = Some(HTTPException(400, "PASSWORD_MISMATCH"))
             /\ reg_response'[q][1].data = None
             /\ users' = users]_vars

\* C18 witness: a request with a new email and differing passwords was
\* answered PASSWORD_MISMATCH and no user is stored.
C18_Witness ==
    /\ reg_pc[1] = "responded"
    /\ reg_in[1][1].password # reg_in[1][1].password_confirm
    /\ reg_response[1] = Some(HTTPException(400, "PASSWORD_MISMATCH"))
    /\ users = {}

\* C19: a request with matching passwords whose email is not stored is
\* answered 201, adds exactly one user, with that email and tier 'freemium',
\* and carries a bearer token that decodes with the secret key to claims with
\* 'sub' equal to the user's email and with an 'exp'.
C19_RegisterSuccess ==
    [][\A q \in RegIds :
         (RespondsNow(q) /\ ~EmailStored(reg_in'[q][1].email)
          /\ reg_in'[q][1].password = reg_in'[q][1].password_confirm) =>
             LET r == reg_response'[q][1]
                 added == users' \ users
             IN  /\ r.status_code = 201
                 /\ users \subseteq users'
                 /\ Cardinality(added) = 1
                 /\ \A u \in added : /\ u.email = reg_in'[q][1].email
                                     /\ u.tier = "freemium"
                                     /\ r.data[1].user = UserPublic(u)
                 /\ r.data[1].token_type = "bearer"
                 /\ LET decoded == jwt_decode(r.data[1].access_token, "SECRET_KEY", {"HS256"})
                    IN  /\ ~decoded.raised
                        /\ decoded.value.sub = reg_in'[q][1].email
                        /\ "exp" \in DOMAIN decoded.value]_vars

\* C19 witness: next to a user stored before, a request with a new email was
\* answered 201 and its user is stored with tier 'freemium'.
C19_Witness ==
    /\ reg_pc[1] = "responded"
    /\ reg_response[1][1].status_code = 201
    /\ Cardinality(users) = 2
    /\ \E u \in users : /\ u.email = reg_in[1][1].email
                        /\ u.tier = "freemium"
                        /\ u.id = 2
    /\ reg_response[1][1].data[1].access_token.payload.exp = 2 + ACCESS_TOKEN_EXPIRE_MINUTES

(***************************************************************************)
(* FastF1Service.import_race, called one call after the other.             *)
(***************************************************************************)
MaxImports == 2
Season == 2024
Rounds == {1, 2}
DriverCodes == {"HAM", "ZZZ"}
SessionLapNumbers == {None, Some(1), Some(2)}
SessionLengths == 0..2

\* The drivers table; "ZZZ" is a code no driver has.
Drivers == {[id |-> 1, code |-> "HAM"], [id |-> 2, code |-> "VER"]}

\* A row of session.laps: the driver's code and the lap number, NaN as None.
SessionLap == [Driver : DriverCodes, LapNumber : SessionLapNumbers]

\* The lap frames a loaded session can hold: a driver has each lap number
\* at most once.
Sessions ==
    { ls \in UNION { [1..n -> SessionLap] : n \in SessionLengths } :
        \A i, j \in DOMAIN ls :
            (i # j /\ ls[i].Driver = ls[j].Driver) => ls[i].LapNumber # ls[j].LapNumber }

\* select(Race).where(season == year, round == round_num) ... scalar_one_or_none()
SelectRace(table, year, round_num) ==
    IF \E r \in table : r.season = year /\ r.round = round_num
    THEN Some(CHOOSE r \in table : r.season = year /\ r.round = round_num)
    ELSE None

\* _get_driver_id: the id of the driver with this code, 1 when there is none.
_get_driver_id(driver_code) ==
    LET driver_id == IF \E d \in Drivers : d.code = driver_code
                     THEN Some((CHOOSE d \in Drivers : d.code = driver_code).id)
                     ELSE None
    IN  IF driver_id # None /\ driver_id[1] # 0 THEN driver_id[1] ELSE 1

\* The loop over session.laps: the LapData rows added to the session, or the
\* exception of int(NaN).
RECURSIVE BuildLapRows(_, _, _, _)
BuildLapRows(laps, i, race_id, next_id) ==
    IF i > Len(laps) THEN Return({})
    ELSE IF laps[i].LapNumber = None THEN Raise("ValueError")
    ELSE LET rest == BuildLapRows(laps, i + 1, race_id, next_id + 1)
         IN  IF rest.raised THEN rest
             ELSE Return({[id |-> next_id, race_id |-> race_id,
                           driver_id |-> _get_driver_id(laps[i].Driver),
                           lap_number |-> laps[i].LapNumber[1]]} \cup rest.value)

\* POST /import/race/{season}/{round}: what the endpoint answers for an outcome
\* of `await fastf1_service.import_race(...)`.  The HTTPException raised for
\* `not success` is raised inside the try block, and `except Exception`
\* catches it like any other exception.
import_race_data(out) ==
    LET tried == IF out.raised THEN out
                 ELSE IF ~out.value THEN Raise(HTTPException(400, "IMPORT_FAILED"))
                 ELSE Return([status_code |-> 200, error_code |-> None,
                              data |-> Some("Successfully imported")])
    IN  IF tried.raised THEN HTTPException(500, "IMPORT_ERROR") ELSE tried.value

InitImport ==
    /\ races = {}
    /\ lap_rows = {}
    /\ imp_count = 0
    /\ imp_pc = "idle"
    /\ imp_args = None
    /\ imp_session = None
    /\ imp_race = None
    /\ imp_result = None
    /\ imp_before = None
    /\ imp_response = None
    /\ CalcIdle /\ TasksIdle /\ AuthIdle

\* import_race is called and suspends on `await self.load_race_session(...)`.
ImportRace(year, round_num) ==
    /\ imp_pc = "idle"
    /\ imp_count < MaxImports
    /\ imp_count' = imp_count + 1
    /\ imp_pc' = "await_load"
    /\ imp_args' = Some([year |-> year, round_num |-> round_num])
    /\ imp_session' = None
    /\ imp_race' = None
    /\ imp_result' = None
    /\ imp_before' = Some([races |-> races, lap_rows |-> lap_rows])
    /\ imp_response' = None
    /\ UNCHANGED <<races, lap_rows>>
    /\ UNCHANGED otherThanImport

\* The session is loaded; the call suspends on the select of the race.
SessionLoaded(laps) ==
    /\ imp_pc = "await_load"
    /\ imp_session' = Some(laps)
    /\ imp_pc' = "await_race"
    /\ UNCHANGED <<races, lap_rows, imp_count, imp_args, imp_race, imp_result, imp_before,
                   imp_response>>
    /\ UNCHANGED otherThanImport

\* Loading the session raises: except, rollback, return False.
SessionLoadFailed ==
    /\ imp_pc = "await_load"
    /\ imp_pc' = "idle"
    /\ imp_result' = Some(FALSE)
    /\ imp_response' = Some(import_race_data(Return(FALSE)))
    /\ UNCHANGED <<races, lap_rows, imp_count, imp_args, imp_session, imp_race, imp_before>>
    /\ UNCHANGED otherThanImport

\* The race is selected, or created and committed when there is none.
RaceEnsured ==
    /\ imp_pc = "await_race"
    /\ LET race == SelectRace(races, imp_args[1].year, imp_args[1].round_num)
       IN  IF race = None
           THEN LET created == [id |-> Cardinality(races) + 1,
                                season |-> imp_args[1].year,
                                round |-> imp_args[1].round_num]
                IN  /\ races' = races \cup {created}
                    /\ imp_race' = Some(created.id)
           ELSE /\ races' = races
                /\ imp_race' = Some(race[1].id)
    /\ imp_pc' = "laps"
    /\ UNCHANGED <<lap_rows, imp_count, imp_args, imp_session, imp_result, imp_before,
                   imp_response>>
    /\ UNCHANGED otherThanImport

\* The laps are added and committed, return True; or building a row raises:
\* except, rollback of the rows added so far, return False.
LapsImported ==
    /\ imp_pc = "laps"
    /\ LET built == BuildLapRows(imp_session[1], 1, imp_race[1], Cardinality(lap_rows) + 1)
       IN  IF built.raised
           THEN /\ lap_rows' = lap_rows
                /\ imp_result' = Some(FALSE)
           ELSE /\ lap_rows' = lap_rows \cup built.value
                /\ imp_result' = Some(TRUE)
    /\ imp_response' = Some(import_race_data(Return(imp_result'[1])))
    /\ imp_pc' = "idle"
    /\ UNCHANGED <<races, imp_count, imp_args, imp_session, imp_race, imp_before>>
    /\ UNCHANGED otherThanImport

NextImport ==
    \/ \E round_num \in Rounds : ImportRace(Season, round_num)
    \/ \E laps \in Sessions : SessionLoaded(laps)
    \/ SessionLoadFailed
    \/ RaceEnsured
    \/ LapsImported

SpecImport == InitImport /\ [][NextImport]_vars

\* C20: the stored lap records have a lap_number unique per driver within a
\* race.
C20_LapNumberUnique ==
    \A r, q \in lap_rows :
        (r.race_id = q.race_id /\ r.driver_id = q.driver_id
         /\ r.lap_number = q.lap_number) => r = q

(***************************************************************************)
(* The lap rows import_race persists, as input of the simulation.          *)
(***************************************************************************)
\* The timing values of a row of session.laps, NaN / NaT as None.
SessionTiming ==
    [Position : {None} \cup {Some(p) : p \in Positions},
     LapTime : {None} \cup {Some(t) : t \in LapTimes \ {0}},
     Compound : {None} \cup {Some(c) : c \in Compounds}]

\* LapData(position=..., lap_time_seconds=..., tire_compound=...): a missing
\* position is stored as 1, a missing lap time as 0, a missing compound as
\* "UNKNOWN".
LapDataOf(lap) ==
    [position |-> IF lap.Position # None THEN lap.Position[1] ELSE 1,
     lap_time_seconds |-> IF lap.LapTime # None THEN lap.LapTime[1] ELSE 0,
     tire_compound |-> IF lap.Compound # None THEN lap.Compound[1] ELSE "UNKNOWN"]

\* Every stored row of the driver is one import_race can have written.
Importable ==
    \A r \in lap_table : \E lap \in SessionTiming :
        LET d == LapDataOf(lap)
        IN  /\ r.position = d.position
            /\ r.lap_time_seconds = d.lap_time_seconds
            /\ r.tire_compound = d.tire_compound

\* C21: for laps import_race can persist (a missing lap time stored as 0), a
\* simulation on a driver with laps returns a result and never raises; with a
\* first lap time of 0 and two or more laps the result carries a
\* degradation_percentage.
C21_ImportedLapsSimulate ==
    (lap_table # {} /\ Importable) =>
        /\ ~Raised
        /\ (Returned /\ Cardinality(lap_table) >= 2
            /\ FirstRow(lap_table).lap_time_seconds = 0) =>
               "degradation_percentage" \in
                   DOMAIN result[1].detailed_analysis.tire_degradation

\* C22: when import_race has returned False, the tables hold exactly the rows
\* they held when it was called: neither the race it created nor any of its
\* lap rows remain.
C22_FailedImportLeavesNothing ==
    imp_result = Some(FALSE) =>
        /\ races = imp_before[1].races
        /\ lap_rows = imp_before[1].lap_rows

\* C23: when import_race has returned False the endpoint answers HTTP 400
\* with code IMPORT_FAILED; 500 IMPORT_ERROR is answered only for an import
\* that raised.
C23_FailureIs400 ==
    /\ imp_result = Some(FALSE) => imp_response = Some(HTTPException(400, "IMPORT_FAILED"))
    /\ (imp_result # None /\ imp_response # None) => imp_response[1].status_code # 500

(***************************************************************************)
(* POST /auth/register, requests served concurrently: the event loop can   *)
(* switch between them at the two awaits.                                  *)
(***************************************************************************)
NextRegisterConcurrent ==
    \/ \E q \in RegIds, user_in \in UserCreate : Register(q, user_in)
    \/ \E q \in RegIds : GetUserAnswered(q)
    \/ \E q \in RegIds, now \in Times : CreateUserAnswered(q, now)

SpecRegisterConcurrent == InitRegister /\ [][NextRegisterConcurrent]_vars

\* C24: of two answered requests with matching passwords and the same email,
\* new when they arrived (one of them created the user), exactly one received
\* 201 and the other 400 EMAIL_EXISTS, and one user with that email is stored.
C24_ConcurrentSameEmail ==
    \A p, q \in RegIds :
        (/\ p # q
         /\ reg_pc[p] = "responded" /\ reg_pc[q] = "responded"
         /\ reg_in[p][1].email = reg_in[q][1].email
         /\ ~PasswordsDiffer(reg_in[p][1]) /\ ~PasswordsDiffer(reg_in[q][1])
         /\ reg_response[p][1].status_code = 201) =>
            /\ reg_response[q] = Some(HTTPException(400, "EMAIL_EXISTS"))
            /\ Cardinality({u \in users : u.email = reg_in[p][1].email}) = 1

\* The position the lookup finds for the requested stop lap: that of the last
\* row at or before it, of the first row when there is none.
StopPosition ==
    IF RowsUpToStop # {} THEN LastRow(RowsUpToStop).position
    ELSE FirstRow(lap_table).position

\* C25: when every recorded position is in 1..20, alternative_position_final
\* is in 2..19; it is min(p + 2, 20) - 1 for p the position at the stop, the
\* floor at 1 never binding; and it is 19 for p = 19 and for p = 20.
C25_AlternativeFinalRange ==
    (Returned /\ PositionsOnGrid) =>
        LET p == StopPosition
            f == result[1].alternative_position_final
        IN  /\ f \in 2..19
            /\ f = Min(p + 2, 20) - 1
            /\ Min(p + 2, 20) - 1 > 1
            /\ p \in {19, 20} => f = 19

\* C25 witness: the position at the stop is 19, one place off the back of the
\* grid, the driver finished first, and the simulated finish is 19.
C25_Witness ==
    /\ Returned
    /\ Cardinality(lap_table) = 2
    /\ RowsUpToStop # {} /\ RowsUpToStop # lap_table
    /\ StopPosition = 19
    /\ LastRow(lap_table).position = 1
    /\ result[1].alternative_position_final = 19
    /\ result[1].position_gain = -18

\* C26: two results for the same driver's laps agree on time_loss_at_stop,
\* time_gain_after_stop, original_position_final, original_stop_lap and the
\* tire_degradation summary, whatever their alternative_stop_lap.
C26_IndependentOfStopLap ==
    \A t, u \in TaskIds :
        (/\ task_pc[t] = "returned" /\ task_pc[u] = "returned"
         /\ task_args[t][1].driver_id = task_args[u][1].driver_id) =>
            LET a == task_result[t][1].value
                b == task_result[u][1].value
            IN  /\ a.time_loss_at_stop = b.time_loss_at_stop
                /\ a.time_gain_after_stop = b.time_gain_after_stop
                /\ a.original_position_final = b.original_position_final
                /\ a.original_stop_lap = b.original_stop_lap
                /\ a.detailed_analysis.tire_degradation = b.detailed_analysis.tire_degradation

\* C26 witness: two results for the same laps and different stop laps, in
\* which every field that may change with the stop lap did change.
C26_Witness ==
    /\ task_pc[1] = "returned" /\ task_pc[2] = "returned"
    /\ task_args[1][1].driver_id = task_args[2][1].driver_id
    /\ task_args[1][1].alternative_stop_lap # task_args[2][1].alternative_stop_lap
    /\ LET a == task_result[1][1].value
           b == task_result[2][1].value
       IN  /\ a.alternative_position_final # b.alternative_position_final
           /\ a.position_gain # b.position_gain
           /\ a.confidence_score # b.confidence_score
           /\ a.recommendation # b.recommendation
           /\ a.detailed_analysis.alternative_tire_strategy #
                  b.detailed_analysis.alternative_tire_strategy
           /\ a.time_loss_at_stop = b.time_loss_at_stop

\* C27: detailed_analysis.total_laps is the number of lap records, and for a
\* driver without an actual pit stop original_tire_strategy is the single
\* label "Unknown" while alternative_tire_strategy is a before -> after label.
C27_TotalLapsAndUnknown ==
    Returned =>
        LET analysis == result[1].detailed_analysis
        IN  /\ analysis.total_laps = Cardinality(lap_table)
            /\ pit_table = {} =>
                  /\ analysis.original_tire_strategy = <<"Unknown">>
                  /\ Len(analysis.alternative_tire_strategy) = 3
                  /\ analysis.alternative_tire_strategy[2] = " -> "
                  /\ <<analysis.alternative_tire_strategy[1],
                       analysis.alternative_tire_strategy[3]>> =
                         LabelParts(req[1].alternative_stop_lap)

\* C27 witness: no actual pit stop, two laps on different compounds with lap
\* numbers 1 and 4, and a stop lap between them.
C27_Witness ==
    /\ Returned
    /\ pit_table = {}
    /\ {r.lap_number : r \in lap_table} = {1, 4}
    /\ req[1].alternative_stop_lap = 2
    /\ result[1].detailed_analysis.total_laps = 2
    /\ result[1].detailed_analysis.original_tire_strategy = <<"Unknown">>
    /\ result[1].detailed_analysis.alternative_tire_strategy = <<"HARD", " -> ", "SOFT">>

\* C28: for a driver with at least two laps the calculation returns a result
\* whose tire-degradation summary holds first_lap_time, last_lap_time, last
\* minus first, and that difference as a percentage of the first lap time; for
\* a driver with exactly one lap it returns a result with an empty summary.
C28_DegradationSummary ==
    ((Returned \/ Raised) /\ lap_table # {}) =>
        LET first == FirstRow(lap_table).lap_time_seconds
            last == LastRow(lap_table).lap_time_seconds
        IN  /\ Returned
            /\ Cardinality(lap_table) = 1 =>
                   result[1].detailed_analysis.tire_degradation = <<>>
            /\ Cardinality(lap_table) >= 2 =>
                   LET summary == result[1].detailed_analysis.tire_degradation
                       pct == summary.degradation_percentage
                   IN  /\ summary.first_lap_time = Rat(first)
                       /\ summary.last_lap_time = Rat(last)
                       /\ summary.degradation_seconds = Rat(last - first)
                       /\ pct[1] * first = pct[2] * (last - first) * 100

\* C29: a request whose passwords differ and whose email is already stored is
\* answered PASSWORD_MISMATCH, not EMAIL_EXISTS, in the step of its arrival,
\* with the users unchanged; and a request whose passwords differ never waits
\* for the lookup or the insert, so the users table is not read for it.
C29_PasswordCheckFirst ==
    /\ [][\A q \in RegIds :
            (/\ reg_pc[q] = "idle" /\ reg_pc'[q] # "idle"
             /\ reg_in'[q][1].password # reg_in'[q][1].password_confirm
             /\ EmailStored(reg_in'[q][1].email)) =>
                /\ reg_pc'[q] = "responded"
                /\ reg_response'[q][1].error_code = Some("PASSWORD_MISMATCH")
                /\ reg_response'[q][1].status_code = 400
                /\ users' = users]_vars
    /\ [](\A q \in RegIds :
            (reg_in[q] # None
             /\ reg_in[q][1].password # reg_in[q][1].password_confirm) =>
                reg_pc[q] \notin {"await_get_user", "await_create_user"})

\* C29 witness: the only request made has the email of the stored user and
\* differing passwords, and was answered PASSWORD_MISMATCH.
C29_Witness ==
    /\ reg_pc[1] = "responded" /\ reg_pc[2] = "idle"
    /\ reg_in[1][1].password # reg_in[1][1].password_confirm
    /\ users = {User(1, reg_in[1][1].email)}
    /\ reg_response[1] = Some(HTTPException(400, "PASSWORD_MISMATCH"))

====
